---- MODULE Spec2Model ----
(***************************************************************************)
(* Model of the serena tool layer: the content-replacement tool            *)
(* (ReplaceContentTool), the line tools, the path-taking file tools and    *)
(* the symbol query tools.                                                 *)
(*                                                                         *)
(* Text is a sequence of one-character strings.  The regular expressions   *)
(* of Python's re module are modelled by a parser for the syntax subset    *)
(*   literal  .  ^  $  \x  ( )  (?: )  |  ?  *  ??  *?                      *)
(* and a backtracking matcher that returns the matches of a node in the    *)
(* engine's priority order (flags DOTALL | MULTILINE).                     *)
(***************************************************************************)
EXTENDS Integers, Sequences, FiniteSets, TLC

VARIABLES disk, last

vars == <<disk, last>>

(***************************************************************************)
(* Bounds of the model.                                                    *)
(***************************************************************************)
MaxContentLen == 3

(***************************************************************************)
(* Text helpers.                                                           *)
(***************************************************************************)
NL == "\n"

RECURSIVE StringsUpTo(_, _)
StringsUpTo(alphabet, n) ==
  IF n = 0 THEN {<<>>}
  ELSE LET shorter == StringsUpTo(alphabet, n - 1)
       IN  shorter \cup {Append(s, c) : s \in shorter, c \in alphabet}

Drop(s, k) == SubSeq(s, k + 1, Len(s))

HasNewline(s) == \E k \in 1..Len(s) : s[k] = NL

(***************************************************************************)
(* re.escape: a backslash before every character of _special_chars_map.    *)
(***************************************************************************)
SpecialChars ==
  {"(", ")", "[", "]", "{", "}", "?", "*", "+", "-", "|", "^", "$", "\\",
   ".", "&", "~", "#", " ", "\t", "\n", "\r"}

RECURSIVE re_escape(_)
re_escape(s) ==
  IF s = <<>> THEN <<>>
  ELSE (IF Head(s) \in SpecialChars THEN <<"\\", Head(s)>> ELSE <<Head(s)>>)
       \o re_escape(Tail(s))

(***************************************************************************)
(* re.compile: pattern text -> syntax tree.  A parse result is             *)
(* [ok, node, pos, ng]: pos is the next unread position, ng the number of  *)
(* capture groups opened so far.  ok = FALSE is re.error.                  *)
(***************************************************************************)
ParseFail == [ok |-> FALSE, node |-> [t |-> "empty"], pos |-> 0, ng |-> 0]

ParseOk(node, pos, ng) == [ok |-> TRUE, node |-> node, pos |-> pos, ng |-> ng]

RepeatChars == {"*", "?"}

CatNode(l, r) == IF l.t = "empty" THEN r ELSE [t |-> "cat", l |-> l, r |-> r]

\* A repeat operator after the item `a` (nothing to repeat on ^ and $,
\* "multiple repeat" on a second operator, a trailing ? makes it lazy).
ParseRepeat(p, a) ==
  IF ~(a.pos <= Len(p) /\ p[a.pos] \in RepeatChars) THEN a
  ELSE IF a.node.t \in {"bol", "eol"} THEN ParseFail
  ELSE LET lazy == a.pos + 1 <= Len(p) /\ p[a.pos + 1] = "?"
           nxt  == IF lazy THEN a.pos + 2 ELSE a.pos + 1
       IN  IF nxt <= Len(p) /\ p[nxt] \in RepeatChars THEN ParseFail
           ELSE ParseOk([t |-> IF p[a.pos] = "*" THEN "star" ELSE "opt",
                         greedy |-> ~lazy, r |-> a.node], nxt, a.ng)

RECURSIVE ParseAlt(_, _, _), ParseSeq(_, _, _, _), ParseAtom(_, _, _)

ParseAtom(p, i, ng) ==
  LET c == p[i] IN
  IF c = "(" THEN
    IF i + 1 <= Len(p) /\ p[i + 1] = "?" THEN
      IF i + 2 <= Len(p) /\ p[i + 2] = ":" THEN
        LET r == ParseAlt(p, i + 3, ng)
        IN  IF r.ok /\ r.pos <= Len(p) /\ p[r.pos] = ")"
              THEN ParseOk([t |-> "cat", l |-> [t |-> "empty"], r |-> r.node],
                           r.pos + 1, r.ng)
              ELSE ParseFail
      ELSE ParseFail
    ELSE
      LET r == ParseAlt(p, i + 1, ng + 1)
      IN  IF r.ok /\ r.pos <= Len(p) /\ p[r.pos] = ")"
            THEN ParseOk([t |-> "grp", n |-> ng + 1, r |-> r.node], r.pos + 1, r.ng)
            ELSE ParseFail
  ELSE IF c \in RepeatChars THEN ParseFail
  ELSE IF c = "\\" THEN
    IF i + 1 <= Len(p) /\ p[i + 1] \in SpecialChars
      THEN ParseOk([t |-> "lit", c |-> p[i + 1]], i + 2, ng)
      ELSE ParseFail
  ELSE IF c = "." THEN ParseOk([t |-> "any"], i + 1, ng)
  ELSE IF c = "^" THEN ParseOk([t |-> "bol"], i + 1, ng)
  ELSE IF c = "$" THEN ParseOk([t |-> "eol"], i + 1, ng)
  ELSE ParseOk([t |-> "lit", c |-> c], i + 1, ng)

ParseSeq(p, i, ng, acc) ==
  IF i > Len(p) \/ p[i] \in {"|", ")"} THEN ParseOk(acc, i, ng)
  ELSE LET a == ParseAtom(p, i, ng) IN
       IF ~a.ok THEN ParseFail
       ELSE LET q == ParseRepeat(p, a) IN
            IF ~q.ok THEN ParseFail
            ELSE ParseSeq(p, q.pos, q.ng, CatNode(acc, q.node))

ParseAlt(p, i, ng) ==
  LET s1 == ParseSeq(p, i, ng, [t |-> "empty"]) IN
  IF ~s1.ok THEN ParseFail
  ELSE IF s1.pos <= Len(p) /\ p[s1.pos] = "|" THEN
    LET rest == ParseAlt(p, s1.pos + 1, s1.ng)
    IN  IF ~rest.ok THEN ParseFail
        ELSE ParseOk([t |-> "alt", l |-> s1.node, r |-> rest.node], rest.pos, rest.ng)
  ELSE s1

\* The compiled pattern: [ok, node, ng]; an unread ")" is "unbalanced
\* parenthesis".
re_compile(p) ==
  LET r == ParseAlt(p, 1, 0)
  IN  IF r.ok /\ r.pos = Len(p) + 1
        THEN [ok |-> TRUE, node |-> r.node, ng |-> r.ng]
        ELSE [ok |-> FALSE, node |-> [t |-> "empty"], ng |-> 0]

(***************************************************************************)
(* The matcher.  MatchNode(nd, s, i, g) is the sequence of the ways nd     *)
(* matches s from position i with captures g, in priority order; each is   *)
(* [e, g]: the position after the match and the captures.  A capture that  *)
(* did not participate is NoneVal.                                         *)
(***************************************************************************)
NoneVal == <<"None">>

RECURSIVE MatchNode(_, _, _, _), MatchThen(_, _, _), MatchStar(_, _, _, _)

\* for each way of the left part, in order, the ways of the right part
MatchThen(rs, nd, s) ==
  IF rs = <<>> THEN <<>>
  ELSE MatchNode(nd, s, Head(rs).e, Head(rs).g) \o MatchThen(Tail(rs), nd, s)

\* for each non-empty way of the body, in order, the ways of the star again
MatchStar(rs, nd, s, i) ==
  IF rs = <<>> THEN <<>>
  ELSE (IF Head(rs).e > i THEN MatchNode(nd, s, Head(rs).e, Head(rs).g) ELSE <<>>)
       \o MatchStar(Tail(rs), nd, s, i)

MatchNode(nd, s, i, g) ==
  LET here == <<[e |-> i, g |-> g]>> IN
  CASE nd.t = "empty" -> here
    [] nd.t = "lit" ->
         IF i <= Len(s) /\ s[i] = nd.c THEN <<[e |-> i + 1, g |-> g]>> ELSE <<>>
    [] nd.t = "any" ->
         IF i <= Len(s) THEN <<[e |-> i + 1, g |-> g]>> ELSE <<>>
    [] nd.t = "bol" -> IF i = 1 \/ s[i - 1] = NL THEN here ELSE <<>>
    [] nd.t = "eol" -> IF i = Len(s) + 1 \/ s[i] = NL THEN here ELSE <<>>
    [] nd.t = "cat" -> MatchThen(MatchNode(nd.l, s, i, g), nd.r, s)
    [] nd.t = "alt" -> MatchNode(nd.l, s, i, g) \o MatchNode(nd.r, s, i, g)
    [] nd.t = "opt" ->
         IF nd.greedy THEN MatchNode(nd.r, s, i, g) \o here
                      ELSE here \o MatchNode(nd.r, s, i, g)
    [] nd.t = "star" ->
         LET more == MatchStar(MatchNode(nd.r, s, i, g), nd, s, i)
         IN  IF nd.greedy THEN more \o here ELSE here \o more
    [] nd.t = "grp" ->
         LET rs == MatchNode(nd.r, s, i, g)
         IN  [k \in 1..Len(rs) |->
                [e |-> rs[k].e,
                 g |-> [rs[k].g EXCEPT ![nd.n] = SubSeq(s, i, rs[k].e - 1)]]]

NoMatchFound == [found |-> FALSE, b |-> 0, e |-> 0, g |-> <<>>]

\* the first of the ways `rs` of matching at position i
FirstWay(rs, i) ==
  IF rs = <<>> THEN NoMatchFound
  ELSE [found |-> TRUE, b |-> i, e |-> rs[1].e, g |-> rs[1].g]

\* the first way the pattern matches at position i (a non-empty one when
\* the engine must advance)
MatchAt(re, s, i, must_advance) ==
  FirstWay(SelectSeq(MatchNode(re.node, s, i, [k \in 1..re.ng |-> NoneVal]),
                     LAMBDA r : ~must_advance \/ r.e > i), i)

\* re.search from `start`: the leftmost position with a match; must_advance
\* applies to the first position tried only.
RECURSIVE re_search_from(_, _, _, _), SearchOn(_, _, _, _)
SearchOn(re, s, start, m) ==
  IF m.found THEN m ELSE re_search_from(re, s, start + 1, FALSE)

re_search_from(re, s, start, must_advance) ==
  IF start > Len(s) + 1 THEN NoMatchFound
  ELSE SearchOn(re, s, start, MatchAt(re, s, start, must_advance))

(***************************************************************************)
(* ReplaceContentTool._create_replacement_function: the replacement of one *)
(* match.  A raised exception is a status other than "ok".                 *)
(***************************************************************************)
Digits == {"0", "1", "2", "3", "4", "5", "6", "7", "8", "9"}

DigitVal(c) ==
  CASE c = "0" -> 0 [] c = "1" -> 1 [] c = "2" -> 2 [] c = "3" -> 3 [] c = "4" -> 4
    [] c = "5" -> 5 [] c = "6" -> 6 [] c = "7" -> 7 [] c = "8" -> 8 [] c = "9" -> 9

RECURSIVE IntOf(_)
IntOf(ds) ==
  IF ds = <<>> THEN 0
  ELSE IntOf(SubSeq(ds, 1, Len(ds) - 1)) * 10 + DigitVal(ds[Len(ds)])

\* the position after the run of digits that starts at j  (\d+ is greedy)
RECURSIVE DigitsEnd(_, _)
DigitsEnd(t, j) == IF j <= Len(t) /\ t[j] \in Digits THEN DigitsEnd(t, j + 1) ELSE j

\* r"\$!(\d+)" matches at j
TokenAt(t, j) ==
  j + 2 <= Len(t) /\ t[j] = "$" /\ t[j + 1] = "!" /\ t[j + 2] \in Digits

\* expand_backreference(m) for the token t[j..k-1] of the template:
\* match.group(group_num) raises IndexError when the pattern has no such
\* group; a group that did not participate leaves the token as it is.
expand_backreference(re, s, match, t, j, k) ==
  LET group_num == IntOf(SubSeq(t, j + 2, k - 1)) IN
  IF group_num > re.ng THEN [status |-> "IndexError", text |-> <<>>]
  ELSE LET group_value == IF group_num = 0 THEN SubSeq(s, match.b, match.e - 1)
                          ELSE match.g[group_num]
       IN  [status |-> "ok",
            text |-> IF group_value # NoneVal THEN group_value ELSE SubSeq(t, j, k - 1)]

\* re.sub(r"\$!(\d+)", expand_backreference, repl_template)
RECURSIVE ExpandTemplate(_, _, _, _, _)
ExpandTemplate(re, s, match, t, j) ==
  IF j > Len(t) THEN [status |-> "ok", text |-> <<>>]
  ELSE IF TokenAt(t, j) THEN
    LET k    == DigitsEnd(t, j + 2)
        x    == expand_backreference(re, s, match, t, j, k)
        rest == ExpandTemplate(re, s, match, t, k)
    IN  IF x.status # "ok" THEN x
        ELSE IF rest.status # "ok" THEN rest
        ELSE [status |-> "ok", text |-> x.text \o rest.text]
  ELSE LET rest == ExpandTemplate(re, s, match, t, j + 1)
       IN  IF rest.status # "ok" THEN rest
           ELSE [status |-> "ok", text |-> <<t[j]>> \o rest.text]

\* the ambiguity test of one match
IsAmbiguous(re, matched_text) ==
  HasNewline(matched_text) /\ re_search_from(re, Drop(matched_text, 1), 1, FALSE).found

validate_and_replace(re, repl_template, s, match) ==
  IF IsAmbiguous(re, SubSeq(s, match.b, match.e - 1))
    THEN [status |-> "AmbiguousMatch", text |-> <<>>]
    ELSE ExpandTemplate(re, s, match, repl_template, 1)

(***************************************************************************)
(* re.subn(regex, repl_fn, content): the matches left to right, each       *)
(* replaced by repl_fn's result; an empty match makes the next search      *)
(* advance.  [status, out, n]; a status other than "ok" is the exception   *)
(* repl_fn raised.                                                         *)
(***************************************************************************)
RECURSIVE SubnLoop(_, _, _, _, _, _, _), SubnMatch(_, _, _, _, _, _, _),
          SubnReplace(_, _, _, _, _, _, _, _)

\* the replacement r of the match m is appended, or its exception ends the call
SubnReplace(re, repl_template, s, start, out, n, m, r) ==
  IF r.status # "ok" THEN [status |-> r.status, out |-> <<>>, n |-> n]
  ELSE SubnLoop(re, repl_template, s, m.e, m.e = m.b,
                out \o SubSeq(s, start, m.b - 1) \o r.text, n + 1)

\* the next match m, if any, is handed to repl_fn
SubnMatch(re, repl_template, s, start, out, n, m) ==
  IF ~m.found THEN [status |-> "ok", out |-> out \o SubSeq(s, start, Len(s)), n |-> n]
  ELSE SubnReplace(re, repl_template, s, start, out, n, m,
                   validate_and_replace(re, repl_template, s, m))

SubnLoop(re, repl_template, s, start, must_advance, out, n) ==
  SubnMatch(re, repl_template, s, start, out, n,
            re_search_from(re, s, start, must_advance))

re_subn(re, repl_template, s) == SubnLoop(re, repl_template, s, 1, FALSE, <<>>, 0)

(***************************************************************************)
(* The project: its paths and what the project says of each.  A file on    *)
(* disk is its text; Absent is a path with no file; Directory a directory. *)
(***************************************************************************)
Absent == <<"<absent>">>

Directory == <<"<dir>">>

P_SRC == "src/a.py"                  \* a source file of the project

P_IGN == "build/gen.py"              \* a file the ignore rules exclude

P_OUT == "../other/x.py"             \* a file outside the project root

P_MEM == ".serena/memories/m.md"     \* a memory file, in an ignored directory

P_NEW == "src/new.py"                \* no such file yet

P_NEWIGN == "build/new.py"           \* no such file yet, in an ignored directory

P_DIR == "src"                       \* a directory of the project

Paths == {P_SRC, P_IGN, P_OUT, P_MEM, P_NEW, P_NEWIGN, P_DIR}

InsideRoot(path) == path # P_OUT

IsIgnored(path) == path \in {P_IGN, P_MEM, P_NEWIGN}

IsFile(d, path) == d[path] \notin {Absent, Directory}

\* project.validate_relative_path: TRUE when the path is accepted
validate_relative_path(relative_path, require_not_ignored) ==
  /\ InsideRoot(relative_path)
  /\ ~(require_not_ignored /\ IsIgnored(relative_path))

(***************************************************************************)
(* The result of a tool call: its status ("ok" or the kind of the          *)
(* exception raised), the disk it leaves, the occurrence count and the     *)
(* accesses it made, in order, each [kind, path].                          *)
(***************************************************************************)
Acc(kind, path) == [kind |-> kind, path |-> path]

Outcome(status, d, n, acc) == [status |-> status, disk |-> d, n |-> n, acc |-> acc]

(***************************************************************************)
(* EditedFileContext: the original content is read on entry; the content   *)
(* the body set is written on exit, and only when the body did not raise.  *)
(* The body's result is [status, staged, n].                               *)
(***************************************************************************)
\* __exit__ with the body's result r
EditedFileContextExit(d, relative_path, r) ==
  IF r.status = "ok"
    THEN Outcome("ok", [d EXCEPT ![relative_path] = r.staged], r.n,
                 <<Acc("read", relative_path), Acc("write", relative_path)>>)
    ELSE Outcome(r.status, d, r.n, <<Acc("read", relative_path)>>)

\* __enter__: the file is there to be read
EditedFileContextEnter(d, relative_path) == IsFile(d, relative_path)

\* context.get_original_content()
get_original_content(d, relative_path) == d[relative_path]

(***************************************************************************)
(* ReplaceContentTool.replace_content.                                     *)
(***************************************************************************)
Staged(status, staged, n) == [status |-> status, staged |-> staged, n |-> n]

\* re.subn on the pattern text: re.error when it does not compile
subn_compiled(re, repl, original_content) ==
  IF ~re.ok THEN [status |-> "PatternError", out |-> <<>>, n |-> 0]
  ELSE re_subn(re, repl, original_content)

\* the checks on the occurrence count n, then set_updated_content
check_occurrences(r, allow_multiple_occurrences) ==
  IF r.status # "ok" THEN Staged(r.status, <<>>, r.n)
  ELSE IF r.n = 0 THEN Staged("NoMatch", <<>>, 0)
  ELSE IF ~allow_multiple_occurrences /\ r.n > 1 THEN Staged("TooManyMatches", <<>>, r.n)
  ELSE Staged("ok", r.out, r.n)

\* the needle used as the regex in both modes
regex_of_unescaped(needle, mode) == needle

\* the regex of a call whose mode is valid
regex_of(needle, mode) == IF mode = "literal" THEN re_escape(needle) ELSE needle

\* the body of the with block
replace_content_body(original_content, needle, repl, mode, allow_multiple_occurrences) ==
  IF mode \notin {"literal", "regex"} THEN Staged("InvalidMode", <<>>, 0)
  ELSE check_occurrences(
         subn_compiled(re_compile(regex_of(needle, mode)), repl, original_content),
         allow_multiple_occurrences)

\* replace_content with the file written as soon as re.subn returns, before
\* the occurrence count is looked at
WriteThenCheck(d, relative_path, r, s) ==
  IF r.status = "ok"
    THEN Outcome(s.status, [d EXCEPT ![relative_path] = r.out], s.n,
                 <<Acc("read", relative_path), Acc("write", relative_path)>>)
    ELSE Outcome(s.status, d, s.n, <<Acc("read", relative_path)>>)

WriteThenCheckOn(d, relative_path, r, allow_multiple_occurrences) ==
  WriteThenCheck(d, relative_path, r, check_occurrences(r, allow_multiple_occurrences))

replace_content_writing_early(d, relative_path, needle, repl, mode, allow_multiple_occurrences, require_not_ignored) ==
  IF ~validate_relative_path(relative_path, require_not_ignored)
    THEN Outcome("ValidationError", d, 0, <<>>)
  ELSE IF ~IsFile(d, relative_path) THEN Outcome("NotFound", d, 0, <<>>)
  ELSE IF mode \notin {"literal", "regex"}
    THEN Outcome("InvalidMode", d, 0, <<Acc("read", relative_path)>>)
  ELSE WriteThenCheckOn(d, relative_path,
         subn_compiled(re_compile(regex_of(needle, mode)), repl, d[relative_path]),
         allow_multiple_occurrences)

replace_content(d, relative_path, needle, repl, mode, allow_multiple_occurrences, require_not_ignored) ==
  IF ~validate_relative_path(relative_path, require_not_ignored)
    THEN Outcome("ValidationError", d, 0, <<>>)
  ELSE IF ~EditedFileContextEnter(d, relative_path)
    THEN Outcome("NotFound", d, 0, <<>>)
  ELSE EditedFileContextExit(d, relative_path,
         replace_content_body(get_original_content(d, relative_path), needle, repl, mode, allow_multiple_occurrences))

(***************************************************************************)
(* EditMemoryTool.apply: replace_content on the memory's file, the ignore  *)
(* rules not applied, one occurrence allowed.                              *)
(***************************************************************************)
get_memory_file_path(memory_file_name) == P_MEM

edit_memory(d, memory_file_name, needle, repl, mode) ==
  replace_content(d, get_memory_file_path(memory_file_name), needle, repl, mode,
                  FALSE, FALSE)

(***************************************************************************)
(* The inputs of the content tools.                                        *)
(***************************************************************************)
ContentAlphabet == {"a", "b", ".", NL}

Contents == StringsUpTo(ContentAlphabet, MaxContentLen)

Needles ==
  { <<"a">>, <<"a", "b">>, <<".">>, <<"a", ".">>, <<NL>>, <<>>,
    <<"(", "a", ")", "|", "b">>,
    <<"(", "a", ")", "?", NL>>,
    <<"a", "*">>,
    <<"(">>,
    <<"^", "a">>,
    <<".", "*">>,
    <<"a", "|", NL, "*">>,
    <<"b", "$">> }

Templates ==
  { <<"c">>, <<>>, <<"$", "!", "1">>, <<"$", "!", "0">>, <<"$", "!", "2">> }

Modes == {"literal", "regex", "fuzzy"}

MemoryNames == {"m"}

(***************************************************************************)
(* State: the disk and the record of the tool call made, if any.  A        *)
(* behaviour is one tool call on a project whose files hold any content    *)
(* within the bounds.                                                      *)
(***************************************************************************)
NoCall == [tool |-> "none"]

InitialDisk(c) ==
  [p \in Paths |-> CASE p \in {P_NEW, P_NEWIGN} -> Absent
                     [] p = P_DIR -> Directory
                     [] OTHER -> c]

Init ==
  /\ \E c \in Contents : disk = InitialDisk(c)
  /\ last = NoCall

\* the call returns: its effect on the disk and its record
ContentCall(tool, path, needle, repl, mode, allow, r) ==
  /\ disk' = r.disk
  /\ last' = [tool |-> tool, path |-> path, needle |-> needle, repl |-> repl,
              mode |-> mode, allow |-> allow, before |-> disk, status |-> r.status,
              n |-> r.n, acc |-> r.acc]

\* ReplaceContentTool.apply
ReplaceContentApply ==
  /\ last = NoCall
  /\ \E relative_path \in Paths, needle \in Needles, repl \in Templates,
        mode \in Modes, allow_multiple_occurrences \in BOOLEAN :
       ContentCall("replace_content", relative_path, needle, repl, mode,
                   allow_multiple_occurrences,
                   replace_content(disk, relative_path, needle, repl, mode,
                                   allow_multiple_occurrences, TRUE))

\* EditMemoryTool.apply
EditMemoryApply ==
  /\ last = NoCall
  /\ \E memory_file_name \in MemoryNames, needle \in Needles, repl \in Templates,
        mode \in Modes :
       ContentCall("edit_memory", get_memory_file_path(memory_file_name),
                   needle, repl, mode, FALSE,
                   edit_memory(disk, memory_file_name, needle, repl, mode))

Next == ReplaceContentApply \/ EditMemoryApply

Spec == Init /\ [][Next]_vars

(***************************************************************************)
(* The line tools.  code_editor.delete_lines and code_editor.insert_at_line *)
(* are each one edit transaction on the file: the path is checked, the     *)
(* file read, the new content staged and written.  io_error is the editor  *)
(* raising inside the transaction (file I/O, the analysis service): the    *)
(* transaction aborts and the file is as before.                           *)
(***************************************************************************)
\* the lines of a text, each with its newline (the last may lack one)
RECURSIVE SplitLines(_, _)
SplitLines(c, cur) ==
  IF c = <<>> THEN (IF cur = <<>> THEN <<>> ELSE <<cur>>)
  ELSE IF Head(c) = NL THEN <<Append(cur, NL)>> \o SplitLines(Tail(c), <<>>)
  ELSE SplitLines(Tail(c), Append(cur, Head(c)))

RECURSIVE JoinLines(_)
JoinLines(ls) == IF ls = <<>> THEN <<>> ELSE Head(ls) \o JoinLines(Tail(ls))

LineCount(c) == Len(SplitLines(c, <<>>))

\* the text without the lines start..end (zero-indexed, inclusive)
DeleteRange(ls, start_line, end_line) ==
  JoinLines(SubSeq(ls, 1, start_line) \o SubSeq(ls, end_line + 2, Len(ls)))

\* the text with content before line `line` (zero-indexed)
InsertBefore(ls, line, content) ==
  JoinLines(SubSeq(ls, 1, line)) \o content \o JoinLines(SubSeq(ls, line + 1, Len(ls)))

delete_lines_body(original_content, start_line, end_line, io_error) ==
  IF io_error THEN Staged("IOError", <<>>, 0)
  ELSE IF ~(0 <= start_line /\ start_line <= end_line
            /\ end_line < LineCount(original_content))
    THEN Staged("InvalidRange", <<>>, 0)
  ELSE Staged("ok", DeleteRange(SplitLines(original_content, <<>>), start_line, end_line), 0)

delete_lines(d, relative_path, start_line, end_line, io_error) ==
  IF ~validate_relative_path(relative_path, TRUE)
    THEN Outcome("ValidationError", d, 0, <<>>)
  ELSE IF ~EditedFileContextEnter(d, relative_path)
    THEN Outcome("NotFound", d, 0, <<>>)
  ELSE EditedFileContextExit(d, relative_path,
         delete_lines_body(get_original_content(d, relative_path), start_line, end_line, io_error))

insert_at_line_body(original_content, line, content, io_error) ==
  IF io_error THEN Staged("IOError", <<>>, 0)
  ELSE IF ~(0 <= line /\ line <= LineCount(original_content))
    THEN Staged("InvalidRange", <<>>, 0)
  ELSE Staged("ok", InsertBefore(SplitLines(original_content, <<>>), line, content), 0)

insert_at_line(d, relative_path, line, content, io_error) ==
  IF ~validate_relative_path(relative_path, TRUE)
    THEN Outcome("ValidationError", d, 0, <<>>)
  ELSE IF ~EditedFileContextEnter(d, relative_path)
    THEN Outcome("NotFound", d, 0, <<>>)
  ELSE EditedFileContextExit(d, relative_path,
         insert_at_line_body(get_original_content(d, relative_path), line, content, io_error))

\* if not content.endswith("\n"): content += "\n"
EnsureEndsWithNewline(content) ==
  IF content # <<>> /\ content[Len(content)] = NL THEN content ELSE Append(content, NL)

\* DeleteLinesTool.apply
DeleteLinesTool_apply(d, relative_path, start_line, end_line, io_error) ==
  delete_lines(d, relative_path, start_line, end_line, io_error)

\* InsertAtLineTool.apply
InsertAtLineTool_apply(d, relative_path, line, content, io_error) ==
  insert_at_line(d, relative_path, line, EnsureEndsWithNewline(content), io_error)

\* ReplaceLinesTool.apply: the delete call, and after it the insert call on
\* the disk the delete call left; an exception of either ends the call.
\* fault names the step at which the editor raises, if any.  The result
\* carries the tools called, in order.
ReplaceLinesInsert(deleted, relative_path, start_line, content, fault) ==
  IF deleted.status # "ok"
    THEN [deleted EXCEPT !.n = 1]
    ELSE [InsertAtLineTool_apply(deleted.disk, relative_path, start_line, content,
                                 fault = "insert")
            EXCEPT !.n = 2, !.acc = deleted.acc \o @]

\* ReplaceLinesTool.apply with the content inserted at end_line
ReplaceLinesTool_apply_at_end(d, relative_path, start_line, end_line, content, fault) ==
  ReplaceLinesInsert(
    DeleteLinesTool_apply(d, relative_path, start_line, end_line, fault = "delete"),
    relative_path, end_line, EnsureEndsWithNewline(content), fault)

ReplaceLinesTool_apply(d, relative_path, start_line, end_line, content, fault) ==
  ReplaceLinesInsert(
    DeleteLinesTool_apply(d, relative_path, start_line, end_line, fault = "delete"),
    relative_path, start_line, EnsureEndsWithNewline(content), fault)

(***************************************************************************)
(* The inputs of the line tools: files of up to MaxLines numbered lines,   *)
(* the last with or without its newline.                                   *)
(***************************************************************************)
MaxLines == 5

DigitChar(i) ==
  CASE i = 0 -> "0" [] i = 1 -> "1" [] i = 2 -> "2" [] i = 3 -> "3" [] i = 4 -> "4"
    [] i = 5 -> "5" [] i = 6 -> "6" [] i = 7 -> "7" [] i = 8 -> "8" [] OTHER -> "9"

RECURSIVE NumberedLines(_)
NumberedLines(k) ==
  IF k = 0 THEN <<>> ELSE NumberedLines(k - 1) \o <<DigitChar(k - 1), NL>>

LineFiles ==
  {NumberedLines(k) : k \in 0..MaxLines}
    \cup {SubSeq(NumberedLines(k), 1, 2 * k - 1) : k \in 1..MaxLines}

LineNumbers == 0..MaxLines

InsertContents ==
  {<<>>, <<"X">>, <<"X", NL>>, <<"X", NL, NL>>, <<"X", NL, "Y">>}

InitLines ==
  /\ \E c \in LineFiles : disk = InitialDisk(c)
  /\ last = NoCall

\* the call returns: its effect on the disk and its record (n: the number
\* of editor calls made)
LineCall(tool, path, start_line, end_line, content, fault, r) ==
  /\ disk' = r.disk
  /\ last' = [tool |-> tool, path |-> path, start |-> start_line, end |-> end_line,
              content |-> content, fault |-> fault, before |-> disk,
              status |-> r.status, n |-> r.n, acc |-> r.acc]

DeleteLinesApply ==
  /\ last = NoCall
  /\ \E relative_path \in Paths, start_line \in LineNumbers, end_line \in LineNumbers,
        fault \in {"none", "delete"} :
       LineCall("delete_lines", relative_path, start_line, end_line, <<>>, fault,
                DeleteLinesTool_apply(disk, relative_path, start_line, end_line,
                                      fault = "delete"))

InsertAtLineApply ==
  /\ last = NoCall
  /\ \E relative_path \in Paths, line \in LineNumbers, content \in InsertContents,
        fault \in {"none", "insert"} :
       LineCall("insert_at_line", relative_path, line, line, content, fault,
                InsertAtLineTool_apply(disk, relative_path, line, content,
                                       fault = "insert"))

ReplaceLinesApply ==
  /\ last = NoCall
  /\ \E relative_path \in Paths, start_line \in LineNumbers, end_line \in LineNumbers,
        content \in InsertContents, fault \in {"none", "delete", "insert"} :
       LineCall("replace_lines", relative_path, start_line, end_line, content, fault,
                ReplaceLinesTool_apply(disk, relative_path, start_line, end_line,
                                       content, fault))

NextLines == DeleteLinesApply \/ InsertAtLineApply \/ ReplaceLinesApply

SpecLines == InitLines /\ [][NextLines]_vars

(***************************************************************************)
(* The other tools that take a path.  Of a call the model keeps the status *)
(* and the accesses to files; the text a read-only tool returns is not     *)
(* modelled.                                                               *)
(***************************************************************************)
\* project.read_file
read_file(d, relative_path) ==
  IF d[relative_path] = Absent THEN Outcome("NotFound", d, 0, <<>>)
  ELSE IF d[relative_path] = Directory THEN Outcome("IsADirectoryError", d, 0, <<>>)
  ELSE Outcome("ok", d, 0, <<Acc("read", relative_path)>>)

\* ReadFileTool.apply
ReadFileTool_apply(d, relative_path) ==
  IF ~validate_relative_path(relative_path, TRUE)
    THEN Outcome("ValidationError", d, 0, <<>>)
    ELSE read_file(d, relative_path)

\* CreateTextFileTool.apply: an existing path goes through
\* validate_relative_path, a new one through the assertion that it is
\* under the project root only.
CreateTextFileTool_apply(d, relative_path, content) ==
  IF d[relative_path] # Absent /\ ~validate_relative_path(relative_path, TRUE)
    THEN Outcome("ValidationError", d, 0, <<>>)
  ELSE IF d[relative_path] = Absent /\ ~InsideRoot(relative_path)
    THEN Outcome("AssertionError", d, 0, <<>>)
  ELSE IF d[relative_path] = Directory
    THEN Outcome("IsADirectoryError", d, 0, <<>>)
  ELSE Outcome("ok", [d EXCEPT ![relative_path] = content], 0,
               <<Acc("write", relative_path)>>)

\* the files under a directory of the project that scan_directory yields
\* with the ignore rules applied
FilesUnder(d, dir) ==
  IF dir = P_DIR THEN SelectSeq(<<P_SRC, P_NEW>>, LAMBDA f : IsFile(d, f)) ELSE <<>>

\* SearchForPatternTool.apply: the path must exist, nothing else is asked
\* of it; a file is searched as it is, a directory through its files.
\* With restrict_search_to_code_files the project's own search is used,
\* which reads the project's source files only.
SearchForPatternTool_apply(d, relative_path, restrict_search_to_code_files) ==
  IF d[relative_path] = Absent THEN Outcome("NotFound", d, 0, <<>>)
  ELSE IF restrict_search_to_code_files
    THEN Outcome("ok", d, 0,
                 IF IsFile(d, relative_path)
                   THEN (IF validate_relative_path(relative_path, TRUE)
                           THEN <<Acc("read", relative_path)>> ELSE <<>>)
                   ELSE [k \in 1..Len(FilesUnder(d, relative_path)) |->
                           Acc("read", FilesUnder(d, relative_path)[k])])
  ELSE IF IsFile(d, relative_path)
    THEN Outcome("ok", d, 0, <<Acc("read", relative_path)>>)
  ELSE Outcome("ok", d, 0,
               [k \in 1..Len(FilesUnder(d, relative_path)) |->
                  Acc("read", FilesUnder(d, relative_path)[k])])

\* GetSymbolsOverviewTool.apply with the path checks skipped
GetSymbolsOverviewTool_apply_unchecked(d, relative_path) ==
  Outcome("ok", d, 1, <<Acc("read", relative_path)>>)

\* GetSymbolsOverviewTool.apply: the path must exist and be no directory;
\* the analysis service then reads the file (n = 1: the service was asked).
GetSymbolsOverviewTool_apply(d, relative_path) ==
  IF d[relative_path] = Absent THEN Outcome("NotFound", d, 0, <<>>)
  ELSE IF d[relative_path] = Directory THEN Outcome("InvalidTarget", d, 0, <<>>)
  ELSE Outcome("ok", d, 1, <<Acc("read", relative_path)>>)

\* the call returns: its effect on the disk and its record
PathCall(tool, path, r) ==
  /\ disk' = r.disk
  /\ last' = [tool |-> tool, path |-> path, before |-> disk, status |-> r.status,
              n |-> r.n, acc |-> r.acc]

NewContents == {<<"n", NL>>}

ReadFileApply ==
  /\ last = NoCall
  /\ \E relative_path \in Paths :
       PathCall("read_file", relative_path, ReadFileTool_apply(disk, relative_path))

CreateTextFileApply ==
  /\ last = NoCall
  /\ \E relative_path \in Paths, content \in NewContents :
       PathCall("create_text_file", relative_path,
                CreateTextFileTool_apply(disk, relative_path, content))

SearchForPatternApply ==
  /\ last = NoCall
  /\ \E relative_path \in Paths, restrict_search_to_code_files \in BOOLEAN :
       PathCall("search_for_pattern", relative_path,
                SearchForPatternTool_apply(disk, relative_path,
                                           restrict_search_to_code_files))

GetSymbolsOverviewApply ==
  /\ last = NoCall
  /\ \E relative_path \in Paths :
       PathCall("get_symbols_overview", relative_path,
                GetSymbolsOverviewTool_apply(disk, relative_path))

PathFiles == {<<"0", NL, "1", NL>>}

InitPaths ==
  /\ \E c \in PathFiles : disk = InitialDisk(c)
  /\ last = NoCall

NextPaths ==
  \/ ReadFileApply
  \/ CreateTextFileApply
  \/ ReplaceContentApply
  \/ EditMemoryApply
  \/ DeleteLinesApply
  \/ InsertAtLineApply
  \/ ReplaceLinesApply
  \/ SearchForPatternApply
  \/ GetSymbolsOverviewApply

SpecPaths == InitPaths /\ [][NextPaths]_vars

(***************************************************************************)
(* The symbol tools.  A symbol of the analysis service has a name, a kind, *)
(* the relative path of its file (NoPath when it has none) and children.   *)
(* A descriptor is a dict: a function from its keys to their values.       *)
(***************************************************************************)
MaxDepth == 1

MaxKinds == 2

NoPath == "<none>"

\* solidlsp.ls_types.SymbolKind: the symbol kinds of the language server
\* protocol, File = 1 .. TypeParameter = 26
SymbolKindCodes == 1..26

\* SymbolKind(k): the member of the enumeration for the code k
SymbolKind(k) == <<"SymbolKind", k>>

RECURSIVE SymbolTree(_)
SymbolTree(levels) ==
  [name |-> "s", kind |-> 5 + levels, rel |-> P_SRC,
   children |-> IF levels = 0 THEN <<>> ELSE <<SymbolTree(levels - 1)>>]

SymbolWithoutPath == [name |-> "g", kind |-> 13, rel |-> NoPath, children |-> <<>>]

\* LanguageServerSymbol.to_dict(kind=True, location=True, depth, include_body)
RECURSIVE to_dict(_, _, _)
to_dict(sym, depth, include_body) ==
  [name |-> sym.name, name_path |-> sym.name, kind |-> sym.kind,
   location |-> IF sym.rel = NoPath THEN [line |-> 0]
                ELSE [relative_path |-> sym.rel, line |-> 0]]
  @@ (IF include_body THEN [body |-> "<body>"] ELSE <<>>)
  @@ (IF depth > 0
        THEN [children |-> [k \in 1..Len(sym.children) |->
                              to_dict(sym.children[k], depth - 1, FALSE)]]
        ELSE <<>>)

Pop(dct, key) == [k \in DOMAIN dct \ {key} |-> dct[k]]

Put(dct, key, value) ==
  [k \in DOMAIN dct \cup {key} |-> IF k = key THEN value ELSE dct[k]]

\* dict.get(key, default)
Get(dct, key, default) == IF key \in DOMAIN dct THEN dct[key] ELSE default

\* _sanitize_symbol_dict on the object heap[ref] of the heap of dicts:
\* copy() makes a new object, the keys are set and popped on the copy.
\* [status, heap, ref]: the heap after the call and the object returned.
SanitizeCopy(heap, new, s_relative_path) ==
  LET h2 == IF s_relative_path # NoPath
              THEN [heap EXCEPT ![new] = Put(@, "relative_path", s_relative_path)]
              ELSE heap
      h3 == [h2 EXCEPT ![new] = Pop(@, "location")]
  IN  IF "name" \notin DOMAIN h3[new]
        THEN [status |-> "KeyError", heap |-> h3, ref |-> new]
        ELSE [status |-> "ok", heap |-> [h3 EXCEPT ![new] = Pop(@, "name")], ref |-> new]

sanitize_symbol_dict(heap, ref) ==
  SanitizeCopy(Append(heap, heap[ref]), Len(heap) + 1,
               Get(Get(heap[ref], "location", <<>>), "relative_path", NoPath))

\* [SymbolKind(k) for k in kinds] if kinds else None: [status, value];
\* SymbolKind(k) raises ValueError on a code that is no member.
NoRestriction == <<"None">>

\* the list mapped without a check of its codes
parse_kinds_passing(kinds) ==
  IF kinds = <<>> THEN [status |-> "ok", value |-> NoRestriction]
  ELSE [status |-> "ok", value |-> [k \in 1..Len(kinds) |-> SymbolKind(kinds[k])]]

parse_kinds(kinds) ==
  IF kinds = <<>> THEN [status |-> "ok", value |-> NoRestriction]
  ELSE IF \E k \in 1..Len(kinds) : kinds[k] \notin SymbolKindCodes
    THEN [status |-> "ValueError", value |-> NoRestriction]
  ELSE [status |-> "ok", value |-> [k \in 1..Len(kinds) |-> SymbolKind(kinds[k])]]

\* the result of a symbol tool: queried says whether the analysis service
\* was asked, query what it was asked with, given the descriptors handed to
\* the sanitizer, given_after the same objects afterwards, payload the
\* descriptors returned.
SymOutcome(status, queried, query, given, given_after, payload) ==
  [status |-> status, queried |-> queried, query |-> query, given |-> given,
   given_after |-> given_after, payload |-> payload]

NoQuery == [include_kinds |-> NoRestriction, exclude_kinds |-> NoRestriction]

\* the descriptors 1..n of the heap sanitized in turn; refs: the objects
\* returned so far
RECURSIVE SanitizeAll(_, _, _, _), SanitizeNext(_, _, _, _)
SanitizeNext(r, k, n, refs) ==
  IF r.status # "ok" THEN [status |-> r.status, heap |-> r.heap, refs |-> refs]
  ELSE SanitizeAll(r.heap, k + 1, n, Append(refs, r.ref))

SanitizeAll(heap, k, n, refs) ==
  IF k > n THEN [status |-> "ok", heap |-> heap, refs |-> refs]
  ELSE SanitizeNext(sanitize_symbol_dict(heap, k), k, n, refs)

SymPayload(query, given, s) ==
  SymOutcome(s.status, TRUE, query, given, SubSeq(s.heap, 1, Len(given)),
             IF s.status = "ok" THEN [k \in 1..Len(s.refs) |-> s.heap[s.refs[k]]]
             ELSE <<>>)

\* FindSymbolTool.apply; symbols is what symbol_retriever.find returns
FindSymbolQuery(pi, pe, depth, include_body, symbols) ==
  IF pi.status # "ok" THEN SymOutcome(pi.status, FALSE, NoQuery, <<>>, <<>>, <<>>)
  ELSE IF pe.status # "ok" THEN SymOutcome(pe.status, FALSE, NoQuery, <<>>, <<>>, <<>>)
  ELSE SymPayload([include_kinds |-> pi.value, exclude_kinds |-> pe.value],
                  [k \in 1..Len(symbols) |-> to_dict(symbols[k], depth, include_body)],
                  SanitizeAll([k \in 1..Len(symbols) |->
                                 to_dict(symbols[k], depth, include_body)],
                              1, Len(symbols), <<>>))

FindSymbolTool_apply(include_kinds, exclude_kinds, depth, include_body, symbols) ==
  FindSymbolQuery(parse_kinds(include_kinds), parse_kinds(exclude_kinds), depth,
                  include_body, symbols)

\* FindReferencingSymbolsTool.apply: the referencing symbols at depth 0
\* without body, each with the lines around the reference; a referencing
\* symbol without a relative path fails the assertion.
RECURSIVE StitchAll(_, _, _, _), StitchNext(_, _, _, _)
StitchNext(r, k, symbols, refs) ==
  IF r.status # "ok" THEN [status |-> r.status, heap |-> r.heap, refs |-> refs]
  ELSE IF symbols[k].rel = NoPath
    THEN [status |-> "AssertionError", heap |-> r.heap, refs |-> refs]
  ELSE StitchAll([r.heap EXCEPT ![r.ref] =
                    Put(@, "content_around_reference", "<lines>")],
                 k + 1, symbols, Append(refs, r.ref))

StitchAll(heap, k, symbols, refs) ==
  IF k > Len(symbols) THEN [status |-> "ok", heap |-> heap, refs |-> refs]
  ELSE StitchNext(sanitize_symbol_dict(heap, k), k, symbols, refs)

FindReferencesQuery(pi, pe, symbols) ==
  IF pi.status # "ok" THEN SymOutcome(pi.status, FALSE, NoQuery, <<>>, <<>>, <<>>)
  ELSE IF pe.status # "ok" THEN SymOutcome(pe.status, FALSE, NoQuery, <<>>, <<>>, <<>>)
  ELSE SymPayload([include_kinds |-> pi.value, exclude_kinds |-> pe.value],
                  [k \in 1..Len(symbols) |-> to_dict(symbols[k], 0, FALSE)],
                  StitchAll([k \in 1..Len(symbols) |-> to_dict(symbols[k], 0, FALSE)],
                            1, symbols, <<>>))

FindReferencingSymbolsTool_apply(include_kinds, exclude_kinds, symbols) ==
  FindReferencesQuery(parse_kinds(include_kinds), parse_kinds(exclude_kinds), symbols)

(***************************************************************************)
(* The inputs of the symbol tools: lists of up to MaxKinds kind codes,     *)
(* among them codes that are no symbol kind, and what the analysis service *)
(* may answer.                                                             *)
(***************************************************************************)
KindCodes == {0, 5, 27}

KindLists == StringsUpTo(KindCodes, MaxKinds)

Depths == 0..MaxDepth

ServiceAnswers ==
  {<<>>, <<SymbolWithoutPath>>}
    \cup {<<SymbolTree(l)>> : l \in 0..MaxDepth}
    \cup {<<SymbolTree(MaxDepth), SymbolTree(0)>>}

InitSym ==
  /\ disk = InitialDisk(<<>>)
  /\ last = NoCall

\* the call returns its record
SymCall(tool, include_kinds, exclude_kinds, depth, r) ==
  /\ disk' = disk
  /\ last' = [tool |-> tool, include |-> include_kinds, exclude |-> exclude_kinds,
              depth |-> depth, status |-> r.status, queried |-> r.queried,
              query |-> r.query, given |-> r.given, given_after |-> r.given_after,
              payload |-> r.payload]

FindSymbolApply ==
  /\ last = NoCall
  /\ \E include_kinds \in KindLists, exclude_kinds \in KindLists, depth \in Depths,
        include_body \in BOOLEAN, symbols \in ServiceAnswers :
       SymCall("find_symbol", include_kinds, exclude_kinds, depth,
               FindSymbolTool_apply(include_kinds, exclude_kinds, depth, include_body,
                                    symbols))

FindReferencingSymbolsApply ==
  /\ last = NoCall
  /\ \E include_kinds \in KindLists, exclude_kinds \in KindLists,
        symbols \in ServiceAnswers :
       SymCall("find_referencing_symbols", include_kinds, exclude_kinds, 0,
               FindReferencingSymbolsTool_apply(include_kinds, exclude_kinds, symbols))

NextSym == FindSymbolApply \/ FindReferencingSymbolsApply

SpecSym == InitSym /\ [][NextSym]_vars

(***************************************************************************)
(* The tool classes of file_tools.py, their bases as the class statements  *)
(* give them, and Tool.can_edit.  ListDirTool and FindFileTool scan a      *)
(* directory and read or write no file.                                    *)
(***************************************************************************)
FileToolClasses ==
  {"ReadFileTool", "CreateTextFileTool", "ListDirTool", "FindFileTool",
   "ReplaceContentTool", "DeleteLinesTool", "ReplaceLinesTool", "InsertAtLineTool",
   "SearchForPatternTool"}

\* the bases with ToolMarkerCanEdit left out of ReplaceLinesTool's
Bases_ReplaceLinesUnmarked(cls) ==
  CASE cls \in {"CreateTextFileTool", "ReplaceContentTool"} -> {"Tool", "ToolMarkerCanEdit"}
    [] cls \in {"DeleteLinesTool", "InsertAtLineTool"}
         -> {"Tool", "ToolMarkerCanEdit", "ToolMarkerOptional"}
    [] cls = "ReplaceLinesTool" -> {"Tool", "ToolMarkerOptional"}
    [] OTHER -> {"Tool"}

\* class <cls>(<bases>)
Bases(cls) ==
  CASE cls \in {"CreateTextFileTool", "ReplaceContentTool"} -> {"Tool", "ToolMarkerCanEdit"}
    [] cls \in {"DeleteLinesTool", "ReplaceLinesTool", "InsertAtLineTool"}
         -> {"Tool", "ToolMarkerCanEdit", "ToolMarkerOptional"}
    [] OTHER -> {"Tool"}

issubclass(cls, base) == base \in ({cls} \cup Bases(cls))

\* Tool.can_edit
can_edit(cls) == issubclass(cls, "ToolMarkerCanEdit")

\* the class whose apply a call ran
ToolClassOf(tool) ==
  CASE tool = "read_file" -> "ReadFileTool"
    [] tool = "create_text_file" -> "CreateTextFileTool"
    [] tool = "list_dir" -> "ListDirTool"
    [] tool = "find_file" -> "FindFileTool"
    [] tool = "replace_content" -> "ReplaceContentTool"
    [] tool = "delete_lines" -> "DeleteLinesTool"
    [] tool = "replace_lines" -> "ReplaceLinesTool"
    [] tool = "insert_at_line" -> "InsertAtLineTool"
    [] tool = "search_for_pattern" -> "SearchForPatternTool"

\* scan_directory: a directory is listed, no file is opened
scan_directory(d, relative_path) ==
  IF d[relative_path] = Directory
    THEN Outcome("ok", d, 0, <<Acc("list", relative_path)>>)
    ELSE Outcome("NotADirectoryError", d, 0, <<>>)

\* ListDirTool.apply: a path that does not exist is reported in the answer
ListDirTool_apply(d, relative_path, skip_ignored_files) ==
  IF d[relative_path] = Absent THEN Outcome("ok", d, 0, <<>>)
  ELSE IF ~validate_relative_path(relative_path, skip_ignored_files)
    THEN Outcome("ValidationError", d, 0, <<>>)
  ELSE scan_directory(d, relative_path)

\* FindFileTool.apply
FindFileTool_apply(d, relative_path) ==
  IF ~validate_relative_path(relative_path, TRUE)
    THEN Outcome("ValidationError", d, 0, <<>>)
  ELSE scan_directory(d, relative_path)

ListDirApply ==
  /\ last = NoCall
  /\ \E relative_path \in Paths, skip_ignored_files \in BOOLEAN :
       PathCall("list_dir", relative_path,
                ListDirTool_apply(disk, relative_path, skip_ignored_files))

FindFileApply ==
  /\ last = NoCall
  /\ \E relative_path \in Paths :
       PathCall("find_file", relative_path, FindFileTool_apply(disk, relative_path))

NextTools ==
  \/ ReadFileApply
  \/ CreateTextFileApply
  \/ ListDirApply
  \/ FindFileApply
  \/ ReplaceContentApply
  \/ DeleteLinesApply
  \/ ReplaceLinesApply
  \/ InsertAtLineApply
  \/ SearchForPatternApply

SpecTools == InitPaths /\ [][NextTools]_vars

(***************************************************************************)
(* GetSymbolsOverviewTool.apply with its result: the retriever's overview  *)
(* is a mapping from the file's path to the list of its top-level symbols, *)
(* in dict form, children populated down to depth; the tool returns the    *)
(* entry of relative_path.                                                 *)
(***************************************************************************)
\* symbol_retriever.get_symbol_overview(relative_path, depth=depth)
get_symbol_overview(relative_path, depth, symbols) ==
  relative_path :> [k \in 1..Len(symbols) |-> to_dict(symbols[k], depth, FALSE)]

\* the result of the call whose checks ended as r: the service is asked, and
\* the entry of relative_path returned, only when no check raised
OverviewResult(r, relative_path, depth, symbols) ==
  [status |-> r.status, disk |-> r.disk, n |-> r.n, acc |-> r.acc,
   queried |-> r.n = 1,
   payload |-> IF r.status = "ok"
                 THEN get_symbol_overview(relative_path, depth, symbols)[relative_path]
                 ELSE <<>>]

GetSymbolsOverviewTool_overview(d, relative_path, depth, symbols) ==
  OverviewResult(GetSymbolsOverviewTool_apply(d, relative_path), relative_path, depth,
                 symbols)

InitOverview ==
  /\ \E c \in Contents : disk = InitialDisk(c)
  /\ last = NoCall

OverviewCall(path, depth, symbols, r) ==
  /\ disk' = r.disk
  /\ last' = [tool |-> "get_symbols_overview", path |-> path, depth |-> depth,
              symbols |-> symbols, before |-> disk, status |-> r.status,
              n |-> r.n, acc |-> r.acc, queried |-> r.queried, payload |-> r.payload]

OverviewApply ==
  /\ last = NoCall
  /\ \E relative_path \in Paths, depth \in Depths, symbols \in ServiceAnswers :
       OverviewCall(relative_path, depth, symbols,
                    GetSymbolsOverviewTool_overview(disk, relative_path, depth, symbols))

NextOverview == OverviewApply

SpecOverview == InitOverview /\ [][NextOverview]_vars

(***************************************************************************)
(* Vocabulary of the properties of the content tools.                      *)
(***************************************************************************)
IsContentCall == last.tool \in {"replace_content", "edit_memory"}

Written == \E k \in 1..Len(last.acc) : last.acc[k].kind = "write"

\* the file's content before the call
Original == last.before[last.path]

\* the call got as far as the substitution: the path was accepted, the file
\* exists, the mode is valid and the pattern compiles
ReachedSubstitution ==
  /\ IsContentCall
  /\ validate_relative_path(last.path, last.tool = "replace_content")
  /\ IsFile(last.before, last.path)
  /\ last.mode \in {"literal", "regex"}
  /\ re_compile(regex_of(last.needle, last.mode)).ok

CallRe == re_compile(regex_of(last.needle, last.mode))

\* the non-overlapping matches of a pattern in a text, left to right
RECURSIVE MatchesFrom(_, _, _, _)
MatchesFrom(re, s, start, must_advance) ==
  LET m == re_search_from(re, s, start, must_advance)
  IN  IF ~m.found THEN <<>> ELSE <<m>> \o MatchesFrom(re, s, m.e, m.e = m.b)

CallMatches == MatchesFrom(CallRe, Original, 1, FALSE)

MatchText(s, m) == SubSeq(s, m.b, m.e - 1)

NoAmbiguousMatch ==
  \A k \in 1..Len(CallMatches) : ~IsAmbiguous(CallRe, MatchText(Original, CallMatches[k]))

\* every $!<N> of the template names a group the pattern has
RECURSIVE TokensInRange(_, _, _)
TokensInRange(t, j, ng) ==
  IF j > Len(t) THEN TRUE
  ELSE IF TokenAt(t, j)
    THEN /\ IntOf(SubSeq(t, j + 2, DigitsEnd(t, j + 2) - 1)) <= ng
         /\ TokensInRange(t, DigitsEnd(t, j + 2), ng)
    ELSE TokensInRange(t, j + 1, ng)

RECURSIVE HasToken(_, _)
HasToken(t, j) == j <= Len(t) /\ (TokenAt(t, j) \/ HasToken(t, j + 1))

(***************************************************************************)
(* C1: a replace_content call that fails, whatever the reason, leaves the  *)
(* disk exactly as it was before the call, and the staged content is       *)
(* written only by a call whose body completed without raising.            *)
(***************************************************************************)
\* C1: a failed call leaves the disk as it was; only a call that did not
\* raise writes.
C1_FailedReplaceLeavesFileUntouched ==
  IsContentCall =>
    /\ (last.status # "ok" => disk = last.before)
    /\ (Written => last.status = "ok")

\* a call that failed after the replacement had been computed
C1_Witness ==
  /\ IsContentCall
  /\ last.status = "TooManyMatches"
  /\ last.path = P_SRC
  /\ last.n > 1

(***************************************************************************)
(* C2: with no ambiguous match and n the number of non-overlapping matches *)
(* of the pattern, the file is written iff n >= 1 and (allowMultiple or    *)
(* n = 1); n = 0 fails NoMatch and n > 1 without allowMultiple fails       *)
(* TooManyMatches, both without a write.                                   *)
(***************************************************************************)
C2_Statement ==
  LET n == Len(CallMatches) IN
  /\ Written <=> (n >= 1 /\ (last.allow \/ n = 1))
  /\ n = 0 => (last.status = "NoMatch" /\ ~Written)
  /\ (n > 1 /\ ~last.allow) => (last.status = "TooManyMatches" /\ ~Written)

\* C2: the file is written iff the occurrence count allows it.
C2_WriteIffOccurrenceCountAllows ==
  (ReachedSubstitution /\ NoAmbiguousMatch) => C2_Statement

\* C2 holds of every call whose template names existing groups only: the
\* IndexError of expand_backreference is the one thing that breaks it.
C2_HoldsWhenGroupsExist ==
  (ReachedSubstitution /\ NoAmbiguousMatch /\ TokensInRange(last.repl, 1, CallRe.ng))
    => C2_Statement

(***************************************************************************)
(* C3: a match that contains a newline and whose text without its first    *)
(* character is matched again by the pattern makes the call fail with      *)
(* AmbiguousMatch, whatever allowMultiple and the number of matches, and   *)
(* the file is unchanged; matches without a newline never do.              *)
(***************************************************************************)
C3_Statement ==
  /\ (~NoAmbiguousMatch) => (last.status = "AmbiguousMatch" /\ disk = last.before)
  /\ (\A k \in 1..Len(CallMatches) : ~HasNewline(MatchText(Original, CallMatches[k])))
       => last.status # "AmbiguousMatch"

\* C3: an ambiguous match always ends the call with AmbiguousMatch.
C3_AmbiguousMatchAlwaysRejected == ReachedSubstitution => C3_Statement

\* C3 holds of every call whose template names existing groups only.
C3_HoldsWhenGroupsExist ==
  (ReachedSubstitution /\ TokensInRange(last.repl, 1, CallRe.ng)) => C3_Statement

(***************************************************************************)
(* C4: every token $!<N> of the template is replaced by the text of group  *)
(* N of the match when the group participated, and in every other case     *)
(* (the group did not participate, the pattern has no group N) stays in    *)
(* the output as it is, and the call does not fail.                        *)
(***************************************************************************)
\* the expansion the claim describes, for one match
RECURSIVE ClaimedExpansion(_, _, _, _, _)
ClaimedExpansion(re, s, m, t, j) ==
  IF j > Len(t) THEN <<>>
  ELSE IF TokenAt(t, j) THEN
    LET k     == DigitsEnd(t, j + 2)
        num   == IntOf(SubSeq(t, j + 2, k - 1))
        token == SubSeq(t, j, k - 1)
        text  == IF num = 0 THEN MatchText(s, m)
                 ELSE IF num <= re.ng /\ m.g[num] # NoneVal THEN m.g[num]
                 ELSE token
    IN  text \o ClaimedExpansion(re, s, m, t, k)
  ELSE <<t[j]>> \o ClaimedExpansion(re, s, m, t, j + 1)

\* the text with each of the matches ms (from position i on) replaced
RECURSIVE ClaimedOutput(_, _, _, _, _)
ClaimedOutput(re, s, ms, t, i) ==
  IF ms = <<>> THEN SubSeq(s, i, Len(s))
  ELSE SubSeq(s, i, Head(ms).b - 1) \o ClaimedExpansion(re, s, Head(ms), t, 1)
       \o ClaimedOutput(re, s, Tail(ms), t, Head(ms).e)

C4_Statement ==
  /\ last.status # "IndexError"
  /\ last.status = "ok" => disk[last.path] = ClaimedOutput(CallRe, Original, CallMatches, last.repl, 1)

\* C4: a token expands to its group or stays literal, and never fails.
C4_BackreferenceExpandsOrStaysLiteral ==
  (ReachedSubstitution /\ HasToken(last.repl, 1)) => C4_Statement

\* C4 holds for the tokens that name a group of the pattern.
C4_HoldsWhenGroupsExist ==
  (ReachedSubstitution /\ HasToken(last.repl, 1)
     /\ TokensInRange(last.repl, 1, CallRe.ng)) => C4_Statement

(***************************************************************************)
(* C5: in literal mode the needle is matched as plain text: content with   *)
(* exactly one occurrence of the needle has that occurrence replaced by R  *)
(* (count 1), and with allowMultiple all k >= 1 non-overlapping            *)
(* occurrences are replaced left to right (count k).                       *)
(***************************************************************************)
OccursAt(c, needle, i) ==
  i + Len(needle) - 1 <= Len(c) /\ SubSeq(c, i, i + Len(needle) - 1) = needle

\* the plain-text occurrences of the needle, counted left to right without
\* overlap (an empty needle occurs before every character and at the end)
RECURSIVE PlainCount(_, _, _)
PlainCount(c, needle, i) ==
  IF i > Len(c) + 1 THEN 0
  ELSE IF OccursAt(c, needle, i)
    THEN 1 + PlainCount(c, needle, IF needle = <<>> THEN i + 1 ELSE i + Len(needle))
    ELSE PlainCount(c, needle, i + 1)

RECURSIVE PlainReplace(_, _, _, _)
PlainReplace(c, needle, r, i) ==
  IF i > Len(c) + 1 THEN <<>>
  ELSE IF OccursAt(c, needle, i)
    THEN r \o (IF needle = <<>>
                 THEN (IF i <= Len(c) THEN <<c[i]>> ELSE <<>>) \o PlainReplace(c, needle, r, i + 1)
                 ELSE PlainReplace(c, needle, r, i + Len(needle)))
    ELSE (IF i <= Len(c) THEN <<c[i]>> ELSE <<>>) \o PlainReplace(c, needle, r, i + 1)

C5_Statement ==
  LET k == PlainCount(Original, last.needle, 1) IN
  (k = 1 \/ (last.allow /\ k >= 1)) =>
     /\ last.status = "ok"
     /\ last.n = k
     /\ disk[last.path] = PlainReplace(Original, last.needle, last.repl, 1)

\* C5: literal mode replaces the plain-text occurrences by R.
C5_LiteralModeReplacesPlainText ==
  (ReachedSubstitution /\ last.mode = "literal") => C5_Statement

\* C5 as amended: literal mode replaces the plain-text occurrences by R,
\* for every R without a $!<N> token.
C5_HoldsWithoutTokens ==
  (ReachedSubstitution /\ last.mode = "literal" /\ ~HasToken(last.repl, 1)) => C5_Statement

\* a literal needle with a metacharacter, replaced at each of its occurrences
C5_Witness ==
  /\ ReachedSubstitution
  /\ last.mode = "literal"
  /\ last.needle = <<"a", ".">>
  /\ last.repl = <<"c">>
  /\ Original = <<"a", ".", "b">>
  /\ last.status = "ok"
  /\ last.n = 1
  /\ disk[last.path] = <<"c", "b">>

(***************************************************************************)
(* C7: on a file with at least end+1 lines and 0 <= start <= end,          *)
(* replaceLines(path, start, end, content) leaves the file as deleteLines  *)
(* (path, start, end) followed by insertAtLine(path, start, content')      *)
(* does.  In the claim content' is content normalized to end with a single *)
(* trailing newline; in the code content' is content with a newline        *)
(* appended when it does not end with one.                                 *)
(***************************************************************************)
\* a replaceLines call the claim covers, with nothing failing under it
IsCoveredReplaceLines ==
  /\ last.tool = "replace_lines"
  /\ last.fault = "none"
  /\ validate_relative_path(last.path, TRUE)
  /\ IsFile(last.before, last.path)
  /\ 0 <= last.start /\ last.start <= last.end
  /\ LineCount(last.before[last.path]) >= last.end + 1

\* deleteLines, then insertAtLine of the content c
DeleteThenInsert(c) ==
  insert_at_line(delete_lines(last.before, last.path, last.start, last.end, FALSE).disk,
                 last.path, last.start, c, FALSE).disk

RECURSIVE StripTrailingNewlines(_)
StripTrailingNewlines(c) ==
  IF c # <<>> /\ c[Len(c)] = NL THEN StripTrailingNewlines(SubSeq(c, 1, Len(c) - 1))
  ELSE c

\* content normalized to end with a single trailing newline
SingleTrailingNewline(c) == Append(StripTrailingNewlines(c), NL)

\* content with a newline appended when it does not end with one
NewlineAppendedIfMissing(c) == IF c = <<>> \/ c[Len(c)] # NL THEN c \o <<NL>> ELSE c

\* C7 as stated: content' ends with a single trailing newline.
C7_ReplaceIsDeleteThenInsert_SingleNewline ==
  IsCoveredReplaceLines =>
    (last.status = "ok" /\ disk = DeleteThenInsert(SingleTrailingNewline(last.content)))

\* C7 as amended: content' is content with a newline appended when it does
\* not end with one.
C7_ReplaceIsDeleteThenInsert ==
  IsCoveredReplaceLines =>
    (last.status = "ok" /\ disk = DeleteThenInsert(NewlineAppendedIfMissing(last.content)))

\* replaceLines(path, 2, 4, "X") on a file of five lines
C7_Witness ==
  /\ IsCoveredReplaceLines
  /\ last.path = P_SRC /\ last.start = 2 /\ last.end = 4 /\ last.content = <<"X">>
  /\ LineCount(last.before[P_SRC]) = 5
  /\ disk[P_SRC] = <<"0", NL, "1", NL, "X", NL>>

(***************************************************************************)
(* C8: replaceLines is never applied in part: when its delete step fails   *)
(* the insert step is not attempted and the failure is the caller's, and   *)
(* when it fails at either step the file is as it was before the call.     *)
(***************************************************************************)
\* C8: a failed replaceLines leaves the disk as it was before the call.
C8_ReplaceLinesIsAllOrNothing ==
  (last.tool = "replace_lines" /\ last.status # "ok") => disk = last.before

\* the half of C8 that holds: a failing delete step ends the call
C8_FailedDeleteEndsTheCall ==
  (last.tool = "replace_lines"
     /\ delete_lines(last.before, last.path, last.start, last.end,
                     last.fault = "delete").status # "ok")
    => /\ last.n = 1
       /\ disk = last.before
       /\ last.status = delete_lines(last.before, last.path, last.start, last.end,
                                     last.fault = "delete").status

(***************************************************************************)
(* C6: in every tool call that takes a path, the path is checked to lie    *)
(* inside the project root and not to be ignored before the first read or  *)
(* write: no file is read, created or modified through a path outside the  *)
(* root or marked ignored.                                                 *)
(***************************************************************************)
LegalPath(path) == InsideRoot(path) /\ ~IsIgnored(path)

AccessesAreLegal == \A k \in 1..Len(last.acc) : LegalPath(last.acc[k].path)

\* C6: no tool call reads or writes through an illegal path.
C6_NoAccessThroughIllegalPath == last.tool # "none" => AccessesAreLegal

\* the tools that do check the path before they touch the file
C6_HoldsForCheckingTools ==
  last.tool \in {"read_file", "replace_content", "delete_lines", "insert_at_line",
                 "replace_lines"} => AccessesAreLegal

(***************************************************************************)
(* C9: every descriptor of the payload of find and findReferences, the     *)
(* top-level ones and the nested children, has neither a name key nor a    *)
(* location key, and has the relative path of the original location at top *)
(* level when there was one; sanitizing does not modify the descriptor     *)
(* given.                                                                  *)
(***************************************************************************)
IsSymbolCall == last.tool \in {"find_symbol", "find_referencing_symbols"}

\* a descriptor and the descriptors nested in it
RECURSIVE Nested(_)
Nested(dct) ==
  {dct} \cup (IF "children" \in DOMAIN dct
                THEN UNION {Nested(dct.children[k]) : k \in 1..Len(dct.children)}
                ELSE {})

Sanitized(dct) == "name" \notin DOMAIN dct /\ "location" \notin DOMAIN dct

\* the relative path of the given descriptor is at the top level of the
\* returned one
PathHoisted(given, returned) ==
  "relative_path" \in DOMAIN given.location
    => ("relative_path" \in DOMAIN returned
          /\ returned.relative_path = given.location.relative_path)

C9_TopLevel ==
  /\ last.given_after = last.given
  /\ \A k \in 1..Len(last.payload) :
       Sanitized(last.payload[k]) /\ PathHoisted(last.given[k], last.payload[k])

\* C9: no descriptor of the payload, nested ones included, has a name or a
\* location key.
C9_PayloadCarriesNoNameOrLocation ==
  (IsSymbolCall /\ last.status = "ok") =>
    /\ C9_TopLevel
    /\ \A k \in 1..Len(last.payload) : \A dct \in Nested(last.payload[k]) : Sanitized(dct)

\* C9 holds of the top-level descriptors
C9_HoldsAtTopLevel == (IsSymbolCall /\ last.status = "ok") => C9_TopLevel

(***************************************************************************)
(* C10: the kind filter that reaches the analysis service is "no           *)
(* restriction" exactly when the caller's list is empty and otherwise the  *)
(* caller's codes as members of SymbolKind; a list with a code that is no  *)
(* symbol kind fails the call before the service is asked.                 *)
(***************************************************************************)
Recognized(kinds) == \A k \in 1..Len(kinds) : kinds[k] \in SymbolKindCodes

\* what the claim says reaches the service for a list of recognized codes
ClaimedFilter(kinds) == [k \in 1..Len(kinds) |-> SymbolKind(kinds[k])]

FilterAsClaimed(kinds, filter) ==
  /\ (filter = NoRestriction) <=> (kinds = <<>>)
  /\ kinds # <<>> => filter = ClaimedFilter(kinds)

\* C10: the filter that reaches the service is the caller's list mapped to
\* SymbolKind, or no restriction for an empty list; an unrecognized code
\* fails the call before the service is asked.
C10_KindFilterIsValidatedAndMapped ==
  IsSymbolCall =>
    IF Recognized(last.include) /\ Recognized(last.exclude)
      THEN /\ last.queried
           /\ FilterAsClaimed(last.include, last.query.include_kinds)
           /\ FilterAsClaimed(last.exclude, last.query.exclude_kinds)
      ELSE last.status = "ValueError" /\ ~last.queried

\* a call with a recognized include list and an unrecognized exclude code
C10_Witness ==
  /\ last.tool = "find_symbol"
  /\ last.include = <<5>>
  /\ last.exclude = <<5, 27>>
  /\ last.status = "ValueError"
  /\ ~last.queried

(***************************************************************************)
(* C11: overview(path, depth) fails with NotFound when the path does not   *)
(* exist and with InvalidTarget when it is a directory, in both cases      *)
(* without asking the analysis service; on an existing file with zero      *)
(* top-level symbols it returns the empty list and does not fail.          *)
(***************************************************************************)
IsOverviewCall == last.tool = "get_symbols_overview"

\* C11: an absent path fails NotFound and a directory InvalidTarget, the
\* service not asked; a file without top-level symbols gives the empty list.
C11_OverviewFailsOrReturnsList ==
  IsOverviewCall =>
    /\ (last.before[last.path] = Absent =>
          (last.status = "NotFound" /\ ~last.queried))
    /\ (last.before[last.path] = Directory =>
          (last.status = "InvalidTarget" /\ ~last.queried))
    /\ ((IsFile(last.before, last.path) /\ last.symbols = <<>>) =>
          (last.status = "ok" /\ last.queried /\ last.payload = <<>>))

\* an overview of a directory, refused before the service is asked
C11_DirectoryRefused ==
  /\ IsOverviewCall
  /\ last.path = P_DIR
  /\ last.symbols # <<>>
  /\ last.status = "InvalidTarget"
  /\ ~last.queried
  /\ last.payload = <<>>

\* an overview of a file without top-level symbols
C11_Witness ==
  /\ IsOverviewCall
  /\ last.path = P_SRC
  /\ last.symbols = <<>>
  /\ last.status = "ok"
  /\ last.payload = <<>>

(***************************************************************************)
(* C12: Tool.can_edit() is true for exactly the tool classes that carry    *)
(* the can-edit marker (ReplaceContentTool, CreateTextFileTool,            *)
(* DeleteLinesTool, InsertAtLineTool, ReplaceLinesTool) and false for the  *)
(* tools without it (ListDirTool, ReadFileTool); every tool of file_tools  *)
(* that writes file content carries the marker.                            *)
(***************************************************************************)
IsFileToolCall == last.tool # "none" /\ ToolClassOf(last.tool) \in FileToolClasses

\* the call changed a file or wrote one
WroteFileContent ==
  \/ disk # last.before
  \/ \E k \in 1..Len(last.acc) : last.acc[k].kind = "write"

EditingToolClasses ==
  {"ReplaceContentTool", "CreateTextFileTool", "DeleteLinesTool", "InsertAtLineTool",
   "ReplaceLinesTool"}

====
